---- MODULE Spec2Model ----
(***************************************************************************)
(* BetArxiv: the search / similarity / ingestion core of app/db.py,        *)
(* app/api.py and ingest.py as a state machine.                            *)
(*                                                                         *)
(* The document store is the table `papers` (db.py) and the table          *)
(* `documents` (read by ingest.py).  A statement sent to the store is a    *)
(* list of placeholders in the order of the SQL text and a list of         *)
(* parameters in the order the code appends them; the store binds them by  *)
(* position.                                                               *)
(*                                                                         *)
(* Numbers: weights, similarities, scores and thresholds are exact         *)
(* rationals <<numerator, denominator>> (denominator > 0); floating-point  *)
(* rounding is not modelled.  Embeddings are non-zero integer vectors of   *)
(* integer length, so every cosine is rational.                            *)
(***************************************************************************)
EXTENDS Integers, Sequences, FiniteSets, TLC

VARIABLES papers, documents, pc, call, ret

vars == <<papers, documents, pc, call, ret>>

\* SQL NULL / Python None: of a text column, and of a vector or number
NULL == "NULL"
NONE == <<>>

-----------------------------------------------------------------------------
(* Bounds of the model *)

MaxDocs == 2
MaxLimit == 2

-----------------------------------------------------------------------------
(* Exact rational arithmetic *)

Rat(n, d) == <<n, d>>
RAdd(a, b) == <<a[1] * b[2] + b[1] * a[2], a[2] * b[2]>>
RMul(a, b) == <<a[1] * b[1], a[2] * b[2]>>
RGe(a, b) == a[1] * b[2] >= b[1] * a[2]
REq(a, b) == a[1] * b[2] = b[1] * a[2]
RGt(a, b) == a[1] * b[2] > b[1] * a[2]
ROne == <<1, 1>>

-----------------------------------------------------------------------------
(* Sequences helpers *)

Range(s) == {s[i] : i \in DOMAIN s}
Prefix(s, n) == IF Len(s) <= n THEN s ELSE SubSeq(s, 1, n)
Injective(s) == \A i, j \in DOMAIN s : s[i] = s[j] => i = j
\* every ordering of the finite set S
Orderings(S) == {s \in [1..Cardinality(S) -> S] : Injective(s)}

-----------------------------------------------------------------------------
(* Embeddings and the pgvector cosine operator `<=>`                        *)

Vectors == {<<1, 0>>, <<3, 4>>}
Dot(a, b) == a[1] * b[1] + a[2] * b[2]
Norm(a) == CHOOSE n \in 0..10 : n * n = Dot(a, a)
\* 1 - (x <=> y): one minus the cosine distance, NULL if an operand is NULL
CosSim(x, y) ==
    IF x = NONE \/ y = NONE THEN NONE ELSE Rat(Dot(x, y), Norm(x) * Norm(y))

-----------------------------------------------------------------------------
(* Text: a string is a sequence of characters                                *)

\* SQL NULL of a text column holding a string, and of a text[] column
NullText == <<NULL>>
NullArray == <<NullText>>

\* str.lower() / SQL LOWER on the characters used here
LowerChar(c) ==
    CASE c = "M" -> "m"
      [] c = "L" -> "l"
      [] c = "D" -> "d"
      [] OTHER -> c
Lower(str) == [i \in DOMAIN str |-> LowerChar(str[i])]

\* Python `needle in hay`
Contains(hay, needle) ==
    \E i \in 0..(Len(hay) - Len(needle)) :
        \A j \in 1..Len(needle) : hay[i + j] = needle[j]

\* SQL `str LIKE pat`: % stands for any run of characters, _ for any one
RECURSIVE Like(_, _)
Like(str, pat) ==
    IF pat = <<>> THEN str = <<>>
    ELSE IF Head(pat) = "%"
         THEN \/ Like(str, Tail(pat))
              \/ (str # <<>> /\ Like(Tail(str), pat))
         ELSE /\ str # <<>>
              /\ (Head(pat) = "_" \/ Head(pat) = Head(str))
              /\ Like(Tail(str), Tail(pat))

\* f"%{keyword}%"
Wrapped(keyword) == <<"%">> \o keyword \o <<"%">>

-----------------------------------------------------------------------------
(* The store: binding parameters to placeholders by position                *)

\* Python values handed to cursor.execute
PyUuidStr(id) == [kind |-> "uuid_str", val |-> id]
PyStr(x) == [kind |-> "str", val |-> x]
PyVector(v) == [kind |-> "vector", val |-> v]
PyFloat(r) == [kind |-> "float", val |-> r]
PyInt(n) == [kind |-> "int", val |-> n]
PyNone == [kind |-> "none", val |-> NONE]
PyVectorOrNone(v) == IF v = NONE THEN PyNone ELSE PyVector(v)

\* the column type each placeholder of the similarity statements stands at
SlotKind(role) ==
    CASE role \in {"title_sim_vec", "abstract_sim_vec",
                   "score_title_vec", "score_abstract_vec"} -> "vector"
      [] role = "id_ne" -> "uuid"
      [] role = "folder_eq" -> "text"
      [] role = "having_threshold" -> "float"
      [] role = "limit" -> "int"

\* whether the store can read parameter p at a placeholder of that type
Accepts(slotKind, p) ==
    CASE p.kind = "none" -> TRUE
      [] slotKind = "vector" -> p.kind = "vector"
      [] slotKind = "uuid" -> p.kind = "uuid_str"
      [] slotKind = "text" -> p.kind \in {"str", "uuid_str"}
      [] slotKind = "float" -> p.kind \in {"float", "int"}
      [] slotKind = "int" -> p.kind = "int"

Binds(slots, params) ==
    /\ Len(slots) = Len(params)
    /\ \A i \in DOMAIN slots : Accepts(SlotKind(slots[i]), params[i])

\* the value bound to the placeholder with the given role
Bound(slots, params, role) ==
    params[CHOOSE i \in DOMAIN slots : slots[i] = role].val

\* ORDER BY key DESC: NULL sorts first, equal keys in any order
DescOrderings(S, key) ==
    {s \in Orderings(S) :
        \A i, j \in DOMAIN s :
            i < j => \/ key[s[i]] = NONE
                     \/ (key[s[j]] # NONE /\ RGe(key[s[i]], key[s[j]]))}

SqlError == [status |-> "error", rows |-> <<>>]

HasSlot(stmt, role) == \E i \in DOMAIN stmt.slots : stmt.slots[i] = role

SimilarityWhere_NoIdTest(table, stmt, params, d) ==
    /\ stmt.not_null => /\ table[d].title_embedding # NONE
                        /\ table[d].abstract_embedding # NONE
    /\ HasSlot(stmt, "folder_eq") =>
           table[d].folder_name = Bound(stmt.slots, params, "folder_eq")

\* the WHERE clause of the similarity statements, for row d
SimilarityWhere(table, stmt, params, d) ==
    /\ HasSlot(stmt, "id_ne") => d # Bound(stmt.slots, params, "id_ne")
    /\ stmt.not_null => /\ table[d].title_embedding # NONE
                        /\ table[d].abstract_embedding # NONE
    /\ HasSlot(stmt, "folder_eq") =>
           table[d].folder_name = Bound(stmt.slots, params, "folder_eq")

\* tw * (1 - (title_embedding <=> %s)) + aw * (1 - (abstract_embedding <=> %s))
WeightedScore(tw, tsim, aw, asim) ==
    IF tsim = NONE \/ asim = NONE THEN NONE
    ELSE RAdd(RMul(tw, tsim), RMul(aw, asim))

\* The similarity SELECT of find_similar_documents,
\* find_similar_documents_by_embeddings and get_similar_papers over `papers`.
\* stmt.slots: the placeholders in the order of the SQL text;
\* stmt.not_null: the IS NOT NULL conditions are present;
\* stmt.tw, stmt.aw: the weights written into the score expression.
\* The result is the set of row lists the store may return.
ExecuteSimilarity(table, stmt, params) ==
    IF ~Binds(stmt.slots, params) THEN {SqlError}
    ELSE
      LET val(role) == Bound(stmt.slots, params, role)
          tsim(d, role) == CosSim(table[d].title_embedding, val(role))
          asim(d, role) == CosSim(table[d].abstract_embedding, val(role))
          score == [d \in DOMAIN table |->
              WeightedScore(stmt.tw, tsim(d, "score_title_vec"),
                            stmt.aw, asim(d, "score_abstract_vec"))]
          having(d) ==
              HasSlot(stmt, "having_threshold") =>
                  /\ score[d] # NONE
                  /\ RGe(score[d], val("having_threshold"))
          selected == {d \in DOMAIN table :
                          SimilarityWhere(table, stmt, params, d) /\ having(d)}
          row(d) == [id |-> d,
                     similarity_score |-> score[d],
                     title_similarity |->
                         IF HasSlot(stmt, "title_sim_vec")
                         THEN tsim(d, "title_sim_vec") ELSE NONE,
                     abstract_similarity |->
                         IF HasSlot(stmt, "abstract_sim_vec")
                         THEN asim(d, "abstract_sim_vec") ELSE NONE]
      IN {[status |-> "ok",
           rows |-> [i \in 1..Len(Prefix(s, val("limit"))) |-> row(s[i])]] :
              s \in DescOrderings(selected, score)}

-----------------------------------------------------------------------------
(* Inputs of the similarity operations *)

Ids == 1..MaxDocs
\* an id no document has
MissingId == MaxDocs + 1
Folders == {"f1"}
\* weights in quarters: 4 stands for 1.0
WeightUnit == 4
Weights == {0, 1, 3}
\* thresholds in hundredths
Thresholds == {Rat(70, 100), Rat(99, 100), Rat(101, 100)}
Limits == 1..MaxLimit

\* the arguments of the operation in progress (0 / NONE / NULL where unused)
SimCall(op, document_id, title_embedding, abstract_embedding, limit, threshold, title_weight, abstract_weight, folder_name, exclude_document_id) ==
    [op |-> op, document_id |-> document_id,
     title_embedding |-> title_embedding,
     abstract_embedding |-> abstract_embedding,
     limit |-> limit, threshold |-> threshold,
     title_weight |-> title_weight, abstract_weight |-> abstract_weight,
     folder_name |-> folder_name, exclude_document_id |-> exclude_document_id]
NoCall == SimCall("none", 0, NONE, NONE, 0, NONE, 0, 0, NULL, 0)

NormalizeWeights_Raw(title_weight, abstract_weight) ==
    <<Rat(title_weight, WeightUnit), Rat(abstract_weight, WeightUnit)>>

\* the weight normalisation at the head of find_similar_documents and
\* find_similar_documents_by_embeddings (and of the API response)
NormalizeWeights(title_weight, abstract_weight) ==
    LET total_weight == title_weight + abstract_weight
    IN IF total_weight > 0
       THEN <<Rat(title_weight, total_weight), Rat(abstract_weight, total_weight)>>
       ELSE <<Rat(1, 2), Rat(1, 2)>>

\* what a call left behind: how it ended, the rows it returned, the weights
\* written into the score expression, the statements sent to the store
Outcome(status, rows, weights, executed) ==
    [status |-> status, rows |-> rows, weights |-> weights, executed |-> executed]

ReferenceUsable_RowOnly(table, document_id) == document_id \in DOMAIN table

\* find_similar_documents goes on to the similarity statement only when the
\* reference row exists and both of its embeddings are set
ReferenceUsable(table, document_id) ==
    /\ document_id \in DOMAIN table
    /\ table[document_id].title_embedding # NONE
    /\ table[document_id].abstract_embedding # NONE

\* Database.find_similar_documents: the set of possible outcomes
FindSimilarDocuments(table, document_id, limit, threshold, title_weight, abstract_weight, folder_name) ==
    LET w == NormalizeWeights(title_weight, abstract_weight)
    IN IF ~ReferenceUsable(table, document_id)
       THEN {Outcome("ok", <<>>, w, 1)}
       ELSE
         LET ref_title_emb == table[document_id].title_embedding
             ref_abstract_emb == table[document_id].abstract_embedding
         IN   LET stmt == [slots |->
                               <<"title_sim_vec", "abstract_sim_vec",
                                 "score_title_vec", "score_abstract_vec",
                                 "id_ne">>
                               \o (IF folder_name # NULL
                                   THEN <<"folder_eq">> ELSE <<>>)
                               \o <<"having_threshold", "limit">>,
                           not_null |-> TRUE,
                           tw |-> w[1], aw |-> w[2]]
                  params == <<PyUuidStr(document_id)>>
                            \o (IF folder_name # NULL
                                THEN <<PyStr(folder_name)>> ELSE <<>>)
                  search_params ==
                      params \o <<PyVectorOrNone(ref_title_emb),
                                  PyVectorOrNone(ref_abstract_emb),
                                  PyVectorOrNone(ref_title_emb),
                                  PyVectorOrNone(ref_abstract_emb),
                                  PyFloat(threshold), PyInt(limit)>>
              IN {Outcome(IF r.status = "ok" THEN "ok" ELSE "raised",
                          r.rows, w, 2) :
                     r \in ExecuteSimilarity(table, stmt, search_params)}

\* Database.find_similar_documents_by_embeddings: the set of possible outcomes
\* (exclude_document_id = 0 stands for None)
FindSimilarDocumentsByEmbeddings(table, title_embedding, abstract_embedding, limit, threshold, title_weight, abstract_weight, folder_name, exclude_document_id) ==
    LET w == NormalizeWeights(title_weight, abstract_weight)
        stmt == [slots |->
                     <<"title_sim_vec", "abstract_sim_vec",
                       "score_title_vec", "score_abstract_vec">>
                     \o (IF folder_name # NULL THEN <<"folder_eq">> ELSE <<>>)
                     \o (IF exclude_document_id # 0 THEN <<"id_ne">> ELSE <<>>)
                     \o <<"having_threshold", "limit">>,
                 not_null |-> TRUE,
                 tw |-> w[1], aw |-> w[2]]
        params == (IF folder_name # NULL THEN <<PyStr(folder_name)>> ELSE <<>>)
                  \o (IF exclude_document_id # 0
                      THEN <<PyUuidStr(exclude_document_id)>> ELSE <<>>)
        search_params ==
            params \o <<PyVector(title_embedding), PyVector(abstract_embedding),
                        PyVector(title_embedding), PyVector(abstract_embedding),
                        PyFloat(threshold), PyInt(limit)>>
    IN {Outcome(IF r.status = "ok" THEN "ok" ELSE "raised", r.rows, w, 1) :
           r \in ExecuteSimilarity(table, stmt, search_params)}

\* the rows of a list comprehension `for r in results if r[score] >= threshold`;
\* comparing None with a float raises TypeError
SelectAtLeast_All(rows, threshold) == rows

SelectAtLeast_AtMost(rows, threshold) ==
    LET F[i \in 0..Len(rows)] ==
            IF i = 0 THEN <<>>
            ELSE IF RGe(threshold, rows[i].similarity_score)
                 THEN Append(F[i - 1], rows[i])
                 ELSE F[i - 1]
    IN F[Len(rows)]

SelectAtLeast(rows, threshold) ==
    LET F[i \in 0..Len(rows)] ==
            IF i = 0 THEN <<>>
            ELSE IF RGe(rows[i].similarity_score, threshold)
                 THEN Append(F[i - 1], rows[i])
                 ELSE F[i - 1]
    IN F[Len(rows)]

\* Database.get_similar_papers (legacy): the set of possible outcomes
GetSimilarPapers(table, paper_id, limit, threshold) ==
    LET w == <<Rat(1, 2), Rat(1, 2)>>
    IN IF paper_id \notin DOMAIN table
       THEN {Outcome("ok", <<>>, w, 1)}
       ELSE
         LET title_emb == table[paper_id].title_embedding
             abstract_emb == table[paper_id].abstract_embedding
             stmt == [slots |-> <<"score_title_vec", "score_abstract_vec",
                                  "id_ne", "limit">>,
                      not_null |-> FALSE,
                      tw |-> w[1], aw |-> w[2]]
             params == <<PyVectorOrNone(title_emb), PyVectorOrNone(abstract_emb),
                         PyUuidStr(paper_id), PyInt(limit)>>
         IN {IF r.status # "ok"
                \/ \E i \in DOMAIN r.rows : r.rows[i].similarity_score = NONE
             THEN Outcome("raised", <<>>, w, 2)
             ELSE Outcome("ok", SelectAtLeast(r.rows, threshold), w, 2) :
                r \in ExecuteSimilarity(table, stmt, params)}

\* the Query(...) constraints of GET /documents/{document_id}/similar
ApiAccepts(limit, threshold, title_weight, abstract_weight) ==
    /\ limit >= 1 /\ limit <= 50
    /\ RGe(threshold, Rat(0, 1)) /\ RGe(ROne, threshold)
    /\ title_weight >= 0 /\ title_weight <= WeightUnit
    /\ abstract_weight >= 0 /\ abstract_weight <= WeightUnit

\* api.get_similar_documents: request validation, then the database call
GetSimilarDocuments(table, document_id, limit, threshold, title_weight, abstract_weight, folder_name) ==
    IF ~ApiAccepts(limit, threshold, title_weight, abstract_weight)
    THEN {Outcome("http_422", <<>>, <<>>, 0)}
    ELSE FindSimilarDocuments(table, document_id, limit, threshold,
                              title_weight, abstract_weight, folder_name)

-----------------------------------------------------------------------------
(* The similarity operations as actions *)

NoOutcome == Outcome("none", <<>>, <<>>, 0)

\* a row of `papers` as far as the similarity queries read it
SimDoc(te, ae, f) ==
    [title_embedding |-> te, abstract_embedding |-> ae, folder_name |-> f, keywords |-> NullArray, title |-> <<"t">>, abstract |-> NullText, status |-> "processed"]
\* the corpora of the similarity specification: every choice of embeddings
\* (present or absent) per document; document 1 lies in folder f1, the others
\* in no folder
FolderOf(d) == IF d = 1 THEN "f1" ELSE NULL
Embeddings == [Ids -> Vectors \cup {NONE}]
SimCorpora == {[d \in Ids |-> SimDoc(te[d], ae[d], FolderOf(d))] : te \in Embeddings, ae \in Embeddings}

InitSimilarity ==
    /\ papers \in SimCorpora
    /\ documents = {}
    /\ pc = "idle"
    /\ call = NoCall
    /\ ret = NoOutcome

find_similar_documents ==
    /\ pc = "idle"
    /\ \E document_id \in Ids \cup {MissingId}, limit \in Limits,
          threshold \in Thresholds, tw \in Weights, aw \in Weights,
          folder_name \in Folders \cup {NULL} :
          /\ call' = SimCall("find_similar_documents", document_id, NONE, NONE,
                             limit, threshold, tw, aw, folder_name, 0)
          /\ ret' \in FindSimilarDocuments(papers, document_id, limit, threshold,
                                           tw, aw, folder_name)
    /\ pc' = "done"
    /\ UNCHANGED <<papers, documents>>

get_similar_documents ==
    /\ pc = "idle"
    /\ \E document_id \in Ids \cup {MissingId}, limit \in Limits,
          threshold \in Thresholds, tw \in Weights, aw \in Weights,
          folder_name \in Folders \cup {NULL} :
          /\ call' = SimCall("get_similar_documents", document_id, NONE, NONE,
                             limit, threshold, tw, aw, folder_name, 0)
          /\ ret' \in GetSimilarDocuments(papers, document_id, limit, threshold,
                                          tw, aw, folder_name)
    /\ pc' = "done"
    /\ UNCHANGED <<papers, documents>>

find_similar_documents_by_embeddings ==
    /\ pc = "idle"
    /\ \E te \in Vectors, ae \in Vectors, limit \in Limits,
          threshold \in Thresholds, tw \in Weights, aw \in Weights,
          folder_name \in Folders \cup {NULL}, exclude \in {0} \cup Ids :
          /\ call' = SimCall("find_similar_documents_by_embeddings", 0, te, ae,
                             limit, threshold, tw, aw, folder_name, exclude)
          /\ ret' \in FindSimilarDocumentsByEmbeddings(
                          papers, te, ae, limit, threshold, tw, aw,
                          folder_name, exclude)
    /\ pc' = "done"
    /\ UNCHANGED <<papers, documents>>

get_similar_papers ==
    /\ pc = "idle"
    /\ \E paper_id \in Ids \cup {MissingId}, limit \in Limits,
          threshold \in Thresholds :
          /\ call' = SimCall("get_similar_papers", paper_id, NONE, NONE,
                             limit, threshold, 0, 0, NULL, 0)
          /\ ret' \in GetSimilarPapers(papers, paper_id, limit, threshold)
    /\ pc' = "done"
    /\ UNCHANGED <<papers, documents>>

NextSimilarity ==
    \/ find_similar_documents
    \/ get_similar_documents
    \/ find_similar_documents_by_embeddings
    \/ get_similar_papers

SpecSimilarity == InitSimilarity /\ [][NextSimilarity]_vars

-----------------------------------------------------------------------------
(* Keyword search: Database.search_by_keywords                               *)

MaxKwDocs == 2
MaxKwLimit == 1

KwIds == 1..MaxKwDocs
KwLimits == 1..MaxKwLimit

\* keywords stored with documents, and keywords asked for
DocKeywords == {<<"m", "l">>, <<"d", "l">>, <<"M", "L">>}
QueryKeywords == {<<"m", "l">>, <<"M", "L">>, <<"l">>, <<"_">>}
\* every list of at most two entries of V
UpToTwo(V) == {<<>>} \cup {<<a>> : a \in V} \cup {<<a, b>> : a \in V, b \in V}

\* ORDER BY created_at DESC: created_at grows with the id (insertion order)
CreatedDesc(S) ==
    CHOOSE s \in Orderings(S) : \A i, j \in DOMAIN s : i < j => s[i] > s[j]

\* the test the scoring loop applies to a query keyword and a document keyword
PyKeywordMatch(query_kw, doc_kw, exact_match, case_sensitive) ==
    IF exact_match
    THEN IF case_sensitive THEN query_kw = doc_kw
         ELSE Lower(query_kw) = Lower(doc_kw)
    ELSE IF case_sensitive THEN Contains(doc_kw, query_kw)
         ELSE Contains(Lower(doc_kw), Lower(query_kw))

\* the test the WHERE clause applies to a prepared keyword and a document
\* keyword: = ANY / && compare for equality, LIKE reads the keyword as a pattern
SqlKeywordMatch(search_kw, doc_kw, exact_match, case_sensitive) ==
    LET column == IF case_sensitive THEN doc_kw ELSE Lower(doc_kw)
    IN IF exact_match THEN search_kw = column
       ELSE Like(column, Wrapped(search_kw))

\* the keyword condition of the WHERE clause, for a non-NULL keywords array
SqlKeywordCondition(doc_keywords, search_keywords, search_mode, exact_match, case_sensitive) ==
    IF search_mode = "all"
    THEN \A i \in DOMAIN search_keywords : \E j \in DOMAIN doc_keywords :
            SqlKeywordMatch(search_keywords[i], doc_keywords[j], exact_match, case_sensitive)
    ELSE \E i \in DOMAIN search_keywords : \E j \in DOMAIN doc_keywords :
            SqlKeywordMatch(search_keywords[i], doc_keywords[j], exact_match, case_sensitive)

\* list(dict.fromkeys(seq))
Dedup(seq) ==
    LET F[i \in 0..Len(seq)] ==
            IF i = 0 THEN <<>>
            ELSE IF seq[i] \in Range(F[i - 1]) THEN F[i - 1]
                 ELSE Append(F[i - 1], seq[i])
    IN F[Len(seq)]

\* the matched_keywords loop: for each query keyword, each document keyword
MatchedKeywords(keywords, doc_keywords, exact_match, case_sensitive) ==
    LET F[i \in 0..Len(keywords)] ==
            IF i = 0 THEN <<>>
            ELSE F[i - 1] \o SelectSeq(doc_keywords,
                     LAMBDA k : PyKeywordMatch(keywords[i], k, exact_match, case_sensitive))
    IN Dedup(F[Len(keywords)])

\* match_score = len(matched_keywords) / len(keywords)
MatchScore(keywords, matched_keywords) ==
    IF keywords # <<>> THEN Rat(Len(matched_keywords), Len(keywords)) ELSE Rat(0, 1)

\* list.sort(key=match_score, reverse=True): stable
SortByMatchScore(rows) ==
    LET Insert(sorted, r) ==
            LET k == Cardinality({i \in DOMAIN sorted : RGe(sorted[i].match_score, r.match_score)})
            IN SubSeq(sorted, 1, k) \o <<r>> \o SubSeq(sorted, k + 1, Len(sorted))
        F[i \in 0..Len(rows)] ==
            IF i = 0 THEN <<>> ELSE Insert(F[i - 1], rows[i])
    IN F[Len(rows)]

\* Database.search_by_keywords
SearchByKeywords(table, keywords, search_mode, exact_match, case_sensitive, folder_name, limit) ==
    IF keywords = <<>> THEN Outcome("ok", <<>>, <<>>, 0)
    ELSE
      LET search_keywords ==
              IF case_sensitive THEN keywords
              ELSE [i \in DOMAIN keywords |-> Lower(keywords[i])]
          where(d) ==
              /\ table[d].keywords # NullArray
              /\ folder_name # NULL => table[d].folder_name = folder_name
              /\ SqlKeywordCondition(table[d].keywords, search_keywords, search_mode, exact_match, case_sensitive)
          results == Prefix(CreatedDesc({d \in DOMAIN table : where(d)}), limit)
          processed(d) ==
              LET matched_keywords == MatchedKeywords(keywords, table[d].keywords, exact_match, case_sensitive)
              IN [id |-> d,
                  matched_keywords |-> matched_keywords,
                  match_score |-> MatchScore(keywords, matched_keywords)]
      IN Outcome("ok",
                 SortByMatchScore([i \in DOMAIN results |-> processed(results[i])]),
                 <<>>, 1)

KwCall(op, keywords, search_mode, exact_match, case_sensitive, folder_name, limit) ==
    [op |-> op, keywords |-> keywords, search_mode |-> search_mode, exact_match |-> exact_match, case_sensitive |-> case_sensitive, folder_name |-> folder_name, limit |-> limit]

\* a row of `papers` as far as the keyword search reads it
KwDoc(kws, f) ==
    [title_embedding |-> NONE, abstract_embedding |-> NONE, folder_name |-> f, keywords |-> kws, title |-> <<"t">>, abstract |-> NullText, status |-> "processed"]
KwCorpora ==
    {[d \in KwIds |-> KwDoc(k[d], FolderOf(d))] : k \in [KwIds -> UpToTwo(DocKeywords) \cup {NullArray}]}

InitKeywords ==
    /\ papers \in KwCorpora
    /\ documents = {}
    /\ pc = "idle"
    /\ call = KwCall("none", <<>>, "any", FALSE, FALSE, NULL, 0)
    /\ ret = NoOutcome

search_by_keywords ==
    /\ pc = "idle"
    /\ \E keywords \in UpToTwo(QueryKeywords), search_mode \in {"any", "all"},
          exact_match \in BOOLEAN, case_sensitive \in BOOLEAN,
          folder_name \in Folders \cup {NULL}, limit \in KwLimits :
          /\ call' = KwCall("search_by_keywords", keywords, search_mode, exact_match, case_sensitive, folder_name, limit)
          /\ ret' = SearchByKeywords(papers, keywords, search_mode, exact_match, case_sensitive, folder_name, limit)
    /\ pc' = "done"
    /\ UNCHANGED <<papers, documents>>

NextKeywords == search_by_keywords

SpecKeywords == InitKeywords /\ [][NextKeywords]_vars

-----------------------------------------------------------------------------
(* Combined search: Database.search_combined and POST /search/combined       *)

MaxCombDocs == 2
MaxCombLimit == 1

CombIds == 1..MaxCombDocs
CombLimits == 1..MaxCombLimit

\* column LIKE %s with a text column that may be NULL
SqlLike(column, pat) == column # NullText /\ Like(column, pat)

\* the conditions search_combined collects in text_conditions, for row d
\* (an absent or empty text_query is <<>>)
CombinedTextConditions(row, text_query) ==
    IF text_query # <<>>
    THEN <<SqlLike(Lower(row.title), Wrapped(Lower(text_query)))
           \/ SqlLike(Lower(row.abstract), Wrapped(Lower(text_query)))>>
    ELSE <<>>

\* ARRAY(SELECT LOWER(unnest(keywords))): empty for a NULL array
LoweredKeywords(row) ==
    IF row.keywords = NullArray THEN <<>>
    ELSE [j \in DOMAIN row.keywords |-> Lower(row.keywords[j])]

\* the conditions search_combined collects in keyword_conditions, for row d
\* (absent or empty keywords are <<>>)
CombinedKeywordConditions(row, keywords, keyword_mode, exact_keyword_match) ==
    LET lowered == LoweredKeywords(row)
        equals(i) == \E j \in DOMAIN lowered : Lower(keywords[i]) = lowered[j]
        like(i) == \E j \in DOMAIN lowered : Like(lowered[j], Wrapped(Lower(keywords[i])))
    IN IF keywords = <<>> THEN <<>>
       ELSE IF exact_keyword_match
            THEN IF keyword_mode = "all"
                 THEN [i \in DOMAIN keywords |-> equals(i)]
                 ELSE <<\E i \in DOMAIN keywords : equals(i)>>
            ELSE IF keyword_mode = "all"
                 THEN [i \in DOMAIN keywords |-> like(i)]
                 ELSE <<\E i \in DOMAIN keywords : like(i)>>

\* the filters dictionary: NULL for none, else the value status must equal
CombinedWhere(row, text_query, keywords, keyword_mode, exact_keyword_match, folder_name, filters) ==
    LET search_conditions ==
            CombinedTextConditions(row, text_query)
            \o CombinedKeywordConditions(row, keywords, keyword_mode, exact_keyword_match)
    IN /\ search_conditions # <<>> => \E i \in DOMAIN search_conditions : search_conditions[i]
       /\ folder_name # NULL => row.folder_name = folder_name
       /\ filters # NULL => row.status = filters

\* Database.search_combined
SearchCombined(table, text_query, keywords, keyword_mode, exact_keyword_match, folder_name, filters, limit) ==
    LET selected == {d \in DOMAIN table : CombinedWhere(table[d], text_query, keywords, keyword_mode, exact_keyword_match, folder_name, filters)}
        results == Prefix(CreatedDesc(selected), limit)
    IN Outcome("ok", [i \in DOMAIN results |-> [id |-> results[i], relevance_score |-> ROne]], <<>>, 1)

\* api.search_combined: the guard, then the database call
ApiSearchCombined(table, text_query, keywords, keyword_mode, exact_keyword_match, folder_name, filters, limit) ==
    IF text_query = <<>> /\ keywords = <<>>
    THEN Outcome("http_400", <<>>, <<>>, 0)
    ELSE SearchCombined(table, text_query, keywords, keyword_mode, exact_keyword_match, folder_name, filters, limit)

CombCall(op, text_query, keywords, keyword_mode, exact_keyword_match, folder_name, filters, limit) ==
    [op |-> op, text_query |-> text_query, keywords |-> keywords, keyword_mode |-> keyword_mode, exact_keyword_match |-> exact_keyword_match, folder_name |-> folder_name, filters |-> filters, limit |-> limit]

StatusOf(d) == IF d = 2 THEN "pending" ELSE "processed"
Titles == {<<"m", "l">>, <<"t">>}
Abstracts == {NullText, <<"d", "l">>}
CombKeywordLists == {NullArray, <<<<"m", "l">>>>, <<<<"m", "l">>, <<"d", "l">>>>}
TextQueries == {<<>>, <<"M", "L">>, <<"d">>}
CombQueryKeywords == {<<>>, <<<<"m", "l">>>>, <<<<"M", "L">>, <<"d", "l">>>>}

CombDoc(t, a, kws, f, st) ==
    [title_embedding |-> NONE, abstract_embedding |-> NONE, folder_name |-> f, keywords |-> kws, title |-> t, abstract |-> a, status |-> st]
CombCorpora ==
    {[d \in CombIds |-> CombDoc(t[d], a[d], k[d], FolderOf(d), StatusOf(d))] : t \in [CombIds -> Titles], a \in [CombIds -> Abstracts], k \in [CombIds -> CombKeywordLists]}

InitCombined ==
    /\ papers \in CombCorpora
    /\ documents = {}
    /\ pc = "idle"
    /\ call = CombCall("none", <<>>, <<>>, "any", FALSE, NULL, NULL, 0)
    /\ ret = NoOutcome

search_combined ==
    /\ pc = "idle"
    /\ \E text_query \in TextQueries, keywords \in CombQueryKeywords,
          keyword_mode \in {"any", "all"}, exact_keyword_match \in BOOLEAN,
          folder_name \in Folders \cup {NULL}, filters \in {NULL, "processed"},
          limit \in CombLimits :
          /\ call' = CombCall("search_combined", text_query, keywords, keyword_mode, exact_keyword_match, folder_name, filters, limit)
          /\ ret' = SearchCombined(papers, text_query, keywords, keyword_mode, exact_keyword_match, folder_name, filters, limit)
    /\ pc' = "done"
    /\ UNCHANGED <<papers, documents>>

api_search_combined ==
    /\ pc = "idle"
    /\ \E text_query \in TextQueries, keywords \in CombQueryKeywords,
          keyword_mode \in {"any", "all"}, exact_keyword_match \in BOOLEAN,
          folder_name \in Folders \cup {NULL}, filters \in {NULL, "processed"},
          limit \in CombLimits :
          /\ call' = CombCall("api_search_combined", text_query, keywords, keyword_mode, exact_keyword_match, folder_name, filters, limit)
          /\ ret' = ApiSearchCombined(papers, text_query, keywords, keyword_mode, exact_keyword_match, folder_name, filters, limit)
    /\ pc' = "done"
    /\ UNCHANGED <<papers, documents>>

NextCombined ==
    \/ search_combined
    \/ api_search_combined

SpecCombined == InitCombined /\ [][NextCombined]_vars

-----------------------------------------------------------------------------
(* Text search: Database.search_documents                                    *)

MaxTextDocs == 2
MaxTextLimit == 2

TextIds == 1..MaxTextDocs
TextLimits == 1..MaxTextLimit

\* LOWER(array) of a text array column, entry by entry; NULL stays NULL
LoweredArray(array) ==
    IF array = NullArray THEN NullArray ELSE [j \in DOMAIN array |-> Lower(array[j])]

\* %s = ANY(array): false for a NULL array
EqualsAny(value, array) ==
    array # NullArray /\ \E j \in DOMAIN array : value = array[j]

\* (LOWER(title) LIKE %s OR LOWER(abstract) LIKE %s
\*  OR %s = ANY(LOWER(authors)) OR %s = ANY(LOWER(keywords)))
TextSearchCondition(row, query) ==
    LET search_term == Wrapped(Lower(query))
    IN \/ SqlLike(Lower(row.title), search_term)
       \/ SqlLike(Lower(row.abstract), search_term)
       \/ EqualsAny(Lower(query), LoweredArray(row.authors))
       \/ EqualsAny(Lower(query), LoweredArray(row.keywords))

\* Database.search_documents
SearchDocuments(table, query, folder_name, k, filters) ==
    LET where(d) ==
            /\ TextSearchCondition(table[d], query)
            /\ folder_name # NULL => table[d].folder_name = folder_name
            /\ filters # NULL => table[d].status = filters
        rows == Prefix(CreatedDesc({d \in DOMAIN table : where(d)}), k)
    IN Outcome("ok", [i \in DOMAIN rows |-> [id |-> rows[i], similarity_score |-> ROne]], <<>>, 1)

TextCall(op, query, folder_name, k, filters) ==
    [op |-> op, query |-> query, folder_name |-> folder_name, k |-> k, filters |-> filters]

AuthorLists == {<<<<"a", "b">>>>, <<<<"c">>, <<"A", "b">>>>}
SearchQueries == {<<"M", "L">>, <<"d">>, <<"a">>, <<"A", "B">>, <<"l">>}

\* a row of `papers` as far as the text search reads it
TextDoc(t, a, au, kws, f, st) ==
    [title |-> t, abstract |-> a, authors |-> au, keywords |-> kws, folder_name |-> f, status |-> st]
TextCorpora ==
    {[d \in TextIds |-> TextDoc(t[d], a[d], au[d], k[d], FolderOf(d), StatusOf(d))] : t \in [TextIds -> Titles], a \in [TextIds -> Abstracts], au \in [TextIds -> AuthorLists], k \in [TextIds -> CombKeywordLists]}

InitText ==
    /\ papers \in TextCorpora
    /\ documents = {}
    /\ pc = "idle"
    /\ call = TextCall("none", <<>>, NULL, 0, NULL)
    /\ ret = NoOutcome

search_documents ==
    /\ pc = "idle"
    /\ \E query \in SearchQueries, folder_name \in Folders \cup {NULL}, k \in TextLimits, filters \in {NULL, "processed"} :
          /\ call' = TextCall("search_documents", query, folder_name, k, filters)
          /\ ret' = SearchDocuments(papers, query, folder_name, k, filters)
    /\ pc' = "done"
    /\ UNCHANGED <<papers, documents>>

NextText == search_documents

SpecText == InitText /\ [][NextText]_vars

-----------------------------------------------------------------------------
(* Folder scoping: Database.list_documents, and every folder-scoped search   *)
(* over documents stored under a label and under a label that extends it     *)

MaxFolderDocs == 2

FolderIds == 1..MaxFolderDocs
\* a folder label and a label that has it as a path prefix
FolderLabels == {"f1", "f1/x"}

ListDocuments_NoFolder(table, skip, limit, filters, folder_name) ==
    LET selected == CreatedDesc({d \in DOMAIN table : filters # NULL => table[d].status = filters})
        page == SubSeq(selected, skip + 1, IF skip + limit < Len(selected) THEN skip + limit ELSE Len(selected))
    IN [total |-> Len(selected)] @@ Outcome("ok", [i \in DOMAIN page |-> [id |-> page[i]]], <<>>, 2)

\* Database.list_documents: the page and the total, filters being a status
ListDocuments(table, skip, limit, filters, folder_name) ==
    LET where(d) ==
            /\ folder_name # NULL => table[d].folder_name = folder_name
            /\ filters # NULL => table[d].status = filters
        selected == CreatedDesc({d \in DOMAIN table : where(d)})
        page == SubSeq(selected, skip + 1, IF skip + limit < Len(selected) THEN skip + limit ELSE Len(selected))
    IN [total |-> Len(selected)] @@ Outcome("ok", [i \in DOMAIN page |-> [id |-> page[i]]], <<>>, 2)

ListCall(op, skip, limit, filters, folder_name) ==
    [op |-> op, skip |-> skip, limit |-> limit, filters |-> filters, folder_name |-> folder_name]

\* a row of `papers` that every search can select: only its folder varies
FolderDoc(f) ==
    [title_embedding |-> <<1, 0>>, abstract_embedding |-> <<1, 0>>, folder_name |-> f, keywords |-> <<<<"m", "l">>>>, title |-> <<"m", "l">>, abstract |-> <<"d", "l">>, authors |-> <<<<"a">>>>, status |-> "processed"]
FolderCorpora == {[d \in FolderIds |-> FolderDoc(f[d])] : f \in [FolderIds -> FolderLabels \cup {NULL}]}

InitFolder ==
    /\ papers \in FolderCorpora
    /\ documents = {}
    /\ pc = "idle"
    /\ call = ListCall("none", 0, 0, NULL, NULL)
    /\ ret = NoOutcome

list_documents ==
    /\ pc = "idle"
    /\ \E skip \in 0..MaxFolderDocs, limit \in FolderIds, filters \in {NULL, "processed"}, folder_name \in Folders \cup {NULL} :
          /\ call' = ListCall("list_documents", skip, limit, filters, folder_name)
          /\ ret' = ListDocuments(papers, skip, limit, filters, folder_name)
    /\ pc' = "done"
    /\ UNCHANGED <<papers, documents>>

NextFolder ==
    \/ list_documents
    \/ search_documents
    \/ search_by_keywords
    \/ search_combined
    \/ find_similar_documents_by_embeddings

SpecFolder == InitFolder /\ [][NextFolder]_vars

-----------------------------------------------------------------------------
(* Ingestion: ingest.main and the functions it calls                         *)
(* A path is the sequence of its components; an absolute path starts "/".    *)

MaxFiles == 2

\* the files a scan can find below the base directory, in sorted order
FileNames == <<<<"a.pdf">>, <<"s", "b.pdf">>, <<"s", "c.pdf">>>>
Files == Range(Prefix(FileNames, MaxFiles))
BaseDirs == {<<"/", "data">>, <<"data">>}

\* Path.is_absolute
IsAbsolute(path) == path # <<>> /\ path[1] = "/"
\* Path.relative_to(base) succeeds exactly when base is a component prefix
IsUnder(path, base) == Len(path) >= Len(base) /\ SubSeq(path, 1, Len(base)) = base
RelativeTo(path, base) == SubSeq(path, Len(base) + 1, Len(path))

\* str(path): the components joined by "/"
RECURSIVE PathStr(_)
PathStr(path) ==
    IF path = <<>> THEN "."
    ELSE IF Len(path) = 1 THEN path[1]
    ELSE IF path[1] = "/" THEN "/" \o PathStr(Tail(path))
    ELSE path[1] \o "/" \o PathStr(Tail(path))

\* get_all_pdf_paths: rglob below base_dir
GetAllPdfPaths(found, base_dir) == {base_dir \o f : f \in found}

\* get_already_ingested_paths: the non-empty url values of relation documents
GetAlreadyIngestedPaths(table) == {url \in table : url # NullText /\ url # <<>>}

ConvertToRelativePaths(absolute_paths, base_dir) ==
    {IF IsUnder(p, base_dir) THEN RelativeTo(p, base_dir) ELSE p : p \in absolute_paths}

\* main: new_relative_paths
NewRelativePaths(all_pdf_absolute_paths, data_root, already_ingested_relative) ==
    ConvertToRelativePaths(all_pdf_absolute_paths, data_root) \ already_ingested_relative

ResolveAbsolute_NoJoin(rel_path, data_root) == rel_path

\* main: the absolute path processed for a new relative path
ResolveAbsolute(rel_path, data_root) ==
    IF IsAbsolute(rel_path) THEN rel_path ELSE data_root \o rel_path

\* sorted(new_absolute_paths)
SortedPaths(S, data_root) ==
    LET rank(p) == CHOOSE i \in DOMAIN FileNames : data_root \o FileNames[i] = p
    IN CHOOSE s \in Orderings(S) : \A i, j \in DOMAIN s : i < j => rank(s[i]) < rank(s[j])

EmbeddingDim == 2
RawEmbeddings == {<<1, 0>>, <<1>>}
EnsureVector(vec) == IF Len(vec) # EmbeddingDim THEN [i \in 1..EmbeddingDim |-> 0] ELSE vec

ProcessPdfUrl_Absolute(pdf_path, base_dir) == pdf_path

\* process_pdf: url
ProcessPdfUrl(pdf_path, base_dir) ==
    IF IsUnder(pdf_path, base_dir) THEN RelativeTo(pdf_path, base_dir) ELSE pdf_path

\* process_pdf: folder_name
ProcessPdfFolder(pdf_path, base_dir) ==
    LET parent == SubSeq(pdf_path, 1, Len(pdf_path) - 1)
    IN IF IsUnder(parent, base_dir)
       THEN IF RelativeTo(parent, base_dir) = <<>> THEN NULL ELSE PathStr(RelativeTo(parent, base_dir))
       ELSE PathStr(parent)

\* the row insert_document stores for what process_pdf returns
ProcessPdf(pdf_path, raw_embedding, base_dir) ==
    [title_embedding |-> EnsureVector(raw_embedding), abstract_embedding |-> EnsureVector(raw_embedding), folder_name |-> ProcessPdfFolder(pdf_path, base_dir), keywords |-> <<>>, title |-> <<"t">>, abstract |-> NullText, status |-> "processed", url |-> ProcessPdfUrl(pdf_path, base_dir)]

\* how the loop body ends for one file: "ok", or the call that raised
FileOutcomes == {"ok", "process_pdf", "insert_document", "update_paper_status"}
Inserted(outcome) == outcome \in {"ok", "update_paper_status"}

\* the rows the loop inserts, in processing order
RECURSIVE InsertedRows(_, _, _, _)
InsertedRows(attempted, outcome, raw_embedding, base_dir) ==
    IF attempted = <<>> THEN <<>>
    ELSE (IF Inserted(outcome[Head(attempted)])
          THEN <<ProcessPdf(Head(attempted), raw_embedding, base_dir)>>
          ELSE <<>>)
         \o InsertedRows(Tail(attempted), outcome, raw_embedding, base_dir)

IngestCall(op, found, data_root) == [op |-> op, found |-> found, data_root |-> data_root]

IngestOutcome(status, known, new_relative_paths, attempted, outcome, closed) ==
    [status |-> status, known |-> known, new_relative_paths |-> new_relative_paths, attempted |-> attempted, outcome |-> outcome, processed_count |-> Cardinality({p \in Range(attempted) : outcome[p] = "ok"}), failed_count |-> Cardinality({p \in Range(attempted) : outcome[p] # "ok"}), closed |-> closed]

\* url values stored before the run, relative or absolute
KnownUrls == {<<"a.pdf">>, <<"/", "data", "a.pdf">>, <<"s", "b.pdf">>}

InitIngest ==
    /\ papers = <<>>
    /\ documents \in SUBSET KnownUrls
    /\ pc = "idle"
    /\ call \in {IngestCall("none", found, data_root) : found \in SUBSET Files, data_root \in BaseDirs}
    /\ ret = IngestOutcome("none", {}, {}, <<>>, <<>>, FALSE)

\* one run of ingest.main over the files found below data_root
main ==
    /\ pc = "idle"
    /\ LET data_root == call.data_root
           all_pdf_absolute_paths == GetAllPdfPaths(call.found, data_root)
           already_ingested_relative == GetAlreadyIngestedPaths(documents)
           new_relative_paths == NewRelativePaths(all_pdf_absolute_paths, data_root, already_ingested_relative)
           new_absolute_paths == {ResolveAbsolute(r, data_root) : r \in new_relative_paths}
           attempted == SortedPaths(new_absolute_paths, data_root)
       IN \E outcome \in [new_absolute_paths -> FileOutcomes], raw_embedding \in RawEmbeddings :
             /\ papers' = papers \o InsertedRows(attempted, outcome, raw_embedding, data_root)
             /\ ret' = IngestOutcome("ok", already_ingested_relative, new_relative_paths, attempted, outcome, TRUE)
    /\ call' = [call EXCEPT !.op = "main"]
    /\ pc' = "done"
    /\ UNCHANGED documents

NextIngest == main

SpecIngest == InitIngest /\ [][NextIngest]_vars

-----------------------------------------------------------------------------
(* Ingestion, one loop iteration per step: the batch loop of ingest.main     *)

\* the calls made so far on process_pdf and on the database
NoCalls == [process_pdf |-> 0, insert_document |-> 0, update_paper_status |-> 0, close |-> 0]

\* the local variables of main
MainLocals(new_relative_paths, pending, attempted, processed_count, failed_count, calls) ==
    [new_relative_paths |-> new_relative_paths, pending |-> pending, attempted |-> attempted, processed_count |-> processed_count, failed_count |-> failed_count, calls |-> calls]

\* the calls one iteration makes before it ends with `outcome`
CallsOfIteration(calls, outcome) ==
    [calls EXCEPT !.process_pdf = @ + 1,
                  !.insert_document = IF outcome # "process_pdf" THEN @ + 1 ELSE @,
                  !.update_paper_status = IF Inserted(outcome) THEN @ + 1 ELSE @]

RestAfterFailure_Abort(pending) == <<>>

\* except Exception: ... continue
RestAfterFailure(pending) == Tail(pending)

InitIngestLoop ==
    /\ papers = <<>>
    /\ documents \in SUBSET KnownUrls
    /\ pc = "idle"
    /\ call \in {IngestCall("none", found, data_root) : found \in SUBSET Files, data_root \in BaseDirs}
    /\ ret = MainLocals({}, <<>>, <<>>, 0, 0, NoCalls)

\* main up to the loop: scan, dedup, early return when nothing is new
main_begin ==
    /\ pc = "idle"
    /\ LET data_root == call.data_root
           all_pdf_absolute_paths == GetAllPdfPaths(call.found, data_root)
           already_ingested_relative == GetAlreadyIngestedPaths(documents)
           new_relative_paths == NewRelativePaths(all_pdf_absolute_paths, data_root, already_ingested_relative)
           new_absolute_paths == {ResolveAbsolute(r, data_root) : r \in new_relative_paths}
       IN IF new_relative_paths = {}
          THEN /\ ret' = MainLocals({}, <<>>, <<>>, 0, 0, [NoCalls EXCEPT !.close = 1])
               /\ pc' = "done"
          ELSE /\ ret' = MainLocals(new_relative_paths, SortedPaths(new_absolute_paths, data_root), <<>>, 0, 0, NoCalls)
               /\ pc' = "loop"
    /\ call' = [call EXCEPT !.op = "main"]
    /\ UNCHANGED <<papers, documents>>

\* one iteration of the loop over sorted(new_absolute_paths)
main_iteration ==
    /\ pc = "loop"
    /\ ret.pending # <<>>
    /\ LET pdf_path == Head(ret.pending)
       IN \E outcome \in FileOutcomes, raw_embedding \in RawEmbeddings :
             /\ papers' = IF Inserted(outcome)
                          THEN Append(papers, ProcessPdf(pdf_path, raw_embedding, call.data_root))
                          ELSE papers
             /\ ret' = MainLocals(ret.new_relative_paths,
                                  IF outcome = "ok" THEN Tail(ret.pending) ELSE RestAfterFailure(ret.pending),
                                  Append(ret.attempted, pdf_path),
                                  IF outcome = "ok" THEN ret.processed_count + 1 ELSE ret.processed_count,
                                  IF outcome = "ok" THEN ret.failed_count ELSE ret.failed_count + 1,
                                  CallsOfIteration(ret.calls, outcome))
    /\ UNCHANGED <<documents, pc, call>>

\* after the loop: the summary and db.close()
main_end ==
    /\ pc = "loop"
    /\ ret.pending = <<>>
    /\ ret' = [ret EXCEPT !.calls.close = @ + 1]
    /\ pc' = "done"
    /\ UNCHANGED <<papers, documents, call>>

NextIngestLoop ==
    \/ main_begin
    \/ main_iteration
    \/ main_end

\* main is one sequential coroutine: it keeps running until it returns
SpecIngestLoop == InitIngestLoop /\ [][NextIngestLoop]_vars /\ WF_vars(NextIngestLoop)

-----------------------------------------------------------------------------
(* Path normalisation on its own: convert_to_relative_paths and the          *)
(* resolution of the new paths in ingest.main, on paths inside and outside   *)
(* the base directory                                                        *)

\* absolute paths of files that are not below any base directory
OutsidePaths == {<<"/", "other", "x.pdf">>, <<"/", "y.pdf">>}

PathCall(op, paths, data_root) == [op |-> op, paths |-> paths, data_root |-> data_root]

PathOutcome(relative, new_relative_paths, new_absolute_paths) ==
    [relative |-> relative, new_relative_paths |-> new_relative_paths, new_absolute_paths |-> new_absolute_paths]

InitPaths ==
    /\ papers = <<>>
    /\ documents \in SUBSET KnownUrls
    /\ pc = "idle"
    /\ call \in {PathCall("none", GetAllPdfPaths(found, data_root) \cup outside, data_root) : found \in SUBSET Files, outside \in SUBSET OutsidePaths, data_root \in BaseDirs}
    /\ ret = PathOutcome({}, {}, {})

\* main from the conversion of the scan to new_absolute_paths
convert_and_resolve ==
    /\ pc = "idle"
    /\ LET new_relative_paths == NewRelativePaths(call.paths, call.data_root, GetAlreadyIngestedPaths(documents))
       IN ret' = PathOutcome(ConvertToRelativePaths(call.paths, call.data_root),
                             new_relative_paths,
                             {ResolveAbsolute(r, call.data_root) : r \in new_relative_paths})
    /\ call' = [call EXCEPT !.op = "convert_and_resolve"]
    /\ pc' = "done"
    /\ UNCHANGED <<papers, documents>>

NextPaths == convert_and_resolve

SpecPaths == InitPaths /\ [][NextPaths]_vars

-----------------------------------------------------------------------------
(* The weight normalisation on its own, applied to its own result            *)

\* the largest raw weight, in units of 1 / WeightUnit
MaxWeight == 9

RECURSIVE Gcd(_, _)
Gcd(x, y) == IF y = 0 THEN x ELSE Gcd(y, x % y)
\* the quotient in lowest terms (b positive)
RDiv(a, b) ==
    LET n == a[1] * b[2]
        d == a[2] * b[1]
        g == Gcd(d, n)
    IN <<n \div g, d \div g>>
RZero == <<0, 1>>

NormalizeWeightPair_TitleOnly(title_weight, abstract_weight) ==
    LET total_weight == RAdd(title_weight, abstract_weight)
    IN IF RGt(total_weight, RZero)
       THEN <<RDiv(title_weight, total_weight), abstract_weight>>
       ELSE <<Rat(1, 2), Rat(1, 2)>>

\* "Normalize weights": the same statements as in the database functions,
\* over any pair of numbers
NormalizeWeightPair(title_weight, abstract_weight) ==
    LET total_weight == RAdd(title_weight, abstract_weight)
    IN IF RGt(total_weight, RZero)
       THEN <<RDiv(title_weight, total_weight), RDiv(abstract_weight, total_weight)>>
       ELSE <<Rat(1, 2), Rat(1, 2)>>

WeightCall(op, title_weight, abstract_weight, raw) ==
    [op |-> op, title_weight |-> title_weight, abstract_weight |-> abstract_weight, raw |-> raw]

InitWeights ==
    /\ papers = <<>>
    /\ documents = {}
    /\ pc = "idle"
    /\ call \in {WeightCall("none", Rat(a, WeightUnit), Rat(b, WeightUnit), <<Rat(a, WeightUnit), Rat(b, WeightUnit)>>) : a, b \in 0..MaxWeight}
    /\ ret = NoOutcome

\* the normalisation applied to the raw weights of the request
normalize_weights ==
    /\ pc = "idle"
    /\ call' = [call EXCEPT !.op = "normalize_weights"]
    /\ ret' = Outcome("ok", <<>>, NormalizeWeightPair(call.title_weight, call.abstract_weight), 0)
    /\ pc' = "normalized"
    /\ UNCHANGED <<papers, documents>>

\* the normalisation applied to the pair the previous step returned
normalize_again ==
    /\ pc = "normalized"
    /\ call' = [call EXCEPT !.op = "normalize_again", !.title_weight = ret.weights[1], !.abstract_weight = ret.weights[2]]
    /\ ret' = Outcome("ok", <<>>, NormalizeWeightPair(ret.weights[1], ret.weights[2]), 0)
    /\ pc' = "done"
    /\ UNCHANGED <<papers, documents>>

NextWeights ==
    \/ normalize_weights
    \/ normalize_again

SpecWeights == InitWeights /\ [][NextWeights]_vars

-----------------------------------------------------------------------------
(* Updating the summary: Database.update_document_summary and its endpoint   *)

MaxUpdDocs == 2

UpdIds == 1..MaxUpdDocs
\* an id no document has
UpdMissingId == MaxUpdDocs + 1

\* the fields of an UpdateSummaryRequest
SummaryFields == {"summary", "methodology", "distinction"}
\* a request field that was not set, as model_dump(exclude_unset=True) sees it
Unset == <<"unset">>
\* what a request can carry in a field: nothing, None, or a text
RequestValues == {Unset, NullText, <<"n">>}
SummaryRequests == [SummaryFields -> RequestValues]

\* the (column, value) pairs collected in fields / values
SuppliedFields(summary_data) ==
    {f \in SummaryFields : summary_data[f] # Unset /\ summary_data[f] # NullText}

\* UPDATE papers SET <fields>, updated_at=NOW() WHERE id=%s
UpdateSummaryRows(table, document_id, summary_data, now) ==
    [d \in DOMAIN table |->
        IF d # document_id THEN table[d]
        ELSE [f \in DOMAIN table[d] |->
                 IF f \in SuppliedFields(summary_data) THEN summary_data[f]
                 ELSE IF f = "updated_at" THEN now
                 ELSE table[d][f]]]

UpdateOutcome(status, value) == [status |-> status, value |-> value]

\* Database.update_document_summary: the table afterwards and the result
UpdateDocumentSummary(table, document_id, summary_data, now) ==
    IF SuppliedFields(summary_data) = {}
    THEN [table |-> table, ret |-> UpdateOutcome("ok", FALSE)]
    ELSE [table |-> UpdateSummaryRows(table, document_id, summary_data, now),
          ret |-> UpdateOutcome("ok", document_id \in DOMAIN table)]

\* PUT /documents/{document_id}/update_summary
ApiUpdateDocumentSummary(table, document_id, summary_data, now) ==
    LET r == UpdateDocumentSummary(table, document_id, summary_data, now)
    IN IF ~r.ret.value
       THEN [table |-> r.table, ret |-> UpdateOutcome("http_404", FALSE)]
       ELSE r

UpdCall(op, document_id, summary_data) ==
    [op |-> op, document_id |-> document_id, summary_data |-> summary_data]

\* a row of `papers` as far as the update reads and writes it
UpdDoc(summary, methodology, distinction) ==
    [title |-> <<"t">>, status |-> "processed", summary |-> summary, methodology |-> methodology, distinction |-> distinction, updated_at |-> 0]
StoredSummaries == {NullText, <<"o">>}
UpdCorpora ==
    {[d \in UpdIds |-> UpdDoc(su[d], me[d], di[d])] : su \in [UpdIds -> StoredSummaries], me \in [UpdIds -> StoredSummaries], di \in [UpdIds -> StoredSummaries]}

InitUpdate ==
    /\ papers \in UpdCorpora
    /\ documents = {}
    /\ pc = "idle"
    /\ call = UpdCall("none", 0, [f \in SummaryFields |-> Unset])
    /\ ret = UpdateOutcome("none", FALSE)

update_document_summary ==
    /\ pc = "idle"
    /\ \E document_id \in UpdIds \cup {UpdMissingId}, summary_data \in SummaryRequests :
          LET r == UpdateDocumentSummary(papers, document_id, summary_data, 1)
          IN /\ call' = UpdCall("update_document_summary", document_id, summary_data)
             /\ papers' = r.table
             /\ ret' = r.ret
    /\ pc' = "done"
    /\ UNCHANGED documents

api_update_document_summary ==
    /\ pc = "idle"
    /\ \E document_id \in UpdIds \cup {UpdMissingId}, summary_data \in SummaryRequests :
          LET r == ApiUpdateDocumentSummary(papers, document_id, summary_data, 1)
          IN /\ call' = UpdCall("api_update_document_summary", document_id, summary_data)
             /\ papers' = r.table
             /\ ret' = r.ret
    /\ pc' = "done"
    /\ UNCHANGED documents

NextUpdate ==
    \/ update_document_summary
    \/ api_update_document_summary

SpecUpdate == InitUpdate /\ [][NextUpdate]_vars

-----------------------------------------------------------------------------
(* Volume and issue: Database.insert_document, Database.get_document and    *)
(* Database.update_document_metadata on the stored volume_issue string, with *)
(* two concurrent metadata updates of one document                           *)

\* str.strip() for the blank
RECURSIVE StripLeft(_)
StripLeft(s) == IF s # <<>> /\ Head(s) = " " THEN StripLeft(Tail(s)) ELSE s
RECURSIVE StripRight(_)
StripRight(s) == IF s # <<>> /\ s[Len(s)] = " " THEN StripRight(SubSeq(s, 1, Len(s) - 1)) ELSE s
Strip(s) == StripLeft(StripRight(s))

\* x or ''
OrEmpty(x) == IF x = NullText THEN <<>> ELSE x

\* f"{volume} {issue}".strip() or None
JoinVolumeIssue(volume, issue) ==
    LET text == Strip(volume \o <<" ">> \o issue)
    IN IF text = <<>> THEN NullText ELSE text

\* insert_document: the volume_issue column of the new row
InsertDocument(volume, issue) == [volume_issue |-> JoinVolumeIssue(OrEmpty(volume), OrEmpty(issue))]

\* str.split(" ", 1): the index of the first blank, 0 when there is none
FirstBlank(s) ==
    IF \E i \in DOMAIN s : s[i] = " "
    THEN CHOOSE i \in DOMAIN s : s[i] = " " /\ \A j \in 1..(i - 1) : s[j] # " "
    ELSE 0

\* get_document: volume and issue of the Document built from the row; both
\* keep their default None when volume_issue is NULL or empty
GetDocument(row) ==
    LET text == row.volume_issue
    IN IF text = NullText \/ text = <<>>
       THEN [volume |-> NullText, issue |-> NullText]
       ELSE [volume |-> IF FirstBlank(text) = 0 THEN text ELSE SubSeq(text, 1, FirstBlank(text) - 1),
             issue |-> IF FirstBlank(text) = 0 THEN NullText ELSE SubSeq(text, FirstBlank(text) + 1, Len(text))]

\* update_document_metadata: the volume_issue it writes, from the fields of
\* the request that are set and the document it has read
UpdateVolumeIssue(data, current_doc) ==
    JoinVolumeIssue(IF data.volume # Unset THEN data.volume ELSE OrEmpty(current_doc.volume),
                    IF data.issue # Unset THEN data.issue ELSE OrEmpty(current_doc.issue))

\* the values a document is inserted with, absent or not
Volumes == {NullText, <<"1">>, <<"V", " ", "1">>}
Issues == {NullText, <<"2">>, <<"s", " ", "2">>}
\* the values the two metadata updates supply
NewVolumes == {<<"7">>, <<"1">>}
NewIssues == {<<"9">>}

\* the two concurrent requests: one sets only volume, the other only issue
MetadataRequest(c) ==
    IF c = "volume_request" THEN [volume |-> call.new_volume, issue |-> Unset]
    ELSE [volume |-> Unset, issue |-> call.new_issue]

InitMetadata ==
    /\ papers = <<>>
    /\ documents = {}
    /\ pc = [store |-> "empty", reader |-> "idle", volume_request |-> "idle", issue_request |-> "idle"]
    /\ call \in [volume : Volumes, issue : Issues, new_volume : NewVolumes, new_issue : NewIssues]
    /\ ret = [document |-> Unset, volume_request |-> Unset, issue_request |-> Unset]

insert_document ==
    /\ pc.store = "empty"
    /\ papers' = <<InsertDocument(call.volume, call.issue)>>
    /\ pc' = [pc EXCEPT !.store = "inserted"]
    /\ UNCHANGED <<documents, call, ret>>

get_document ==
    /\ pc.store = "inserted"
    /\ pc.reader = "idle"
    /\ ret' = [ret EXCEPT !.document = GetDocument(papers[1])]
    /\ pc' = [pc EXCEPT !.reader = "done"]
    /\ UNCHANGED <<papers, documents, call>>

\* update_document_metadata up to the return of its get_document
update_document_metadata_read ==
    \E c \in {"volume_request", "issue_request"} :
        /\ pc.store = "inserted"
        /\ pc[c] = "idle"
        /\ ret' = [ret EXCEPT ![c] = GetDocument(papers[1])]
        /\ pc' = [pc EXCEPT ![c] = "read"]
        /\ UNCHANGED <<papers, documents, call>>

\* update_document_metadata from there: the UPDATE statement
update_document_metadata_write ==
    \E c \in {"volume_request", "issue_request"} :
        /\ pc[c] = "read"
        /\ papers' = [papers EXCEPT ![1].volume_issue = UpdateVolumeIssue(MetadataRequest(c), ret[c])]
        /\ pc' = [pc EXCEPT ![c] = "done"]
        /\ UNCHANGED <<documents, call, ret>>

NextMetadata ==
    \/ insert_document
    \/ get_document
    \/ update_document_metadata_read
    \/ update_document_metadata_write

SpecMetadata == InitMetadata /\ [][NextMetadata]_vars

-----------------------------------------------------------------------------
(* Properties of the similarity operations (SpecSimilarity) *)

Returned == pc = "done" /\ ret.status = "ok"
WeightedOps == {"find_similar_documents", "find_similar_documents_by_embeddings"}
SimilarityOps == WeightedOps \cup {"get_similar_documents", "get_similar_papers"}
RowIds == {ret.rows[i].id : i \in DOMAIN ret.rows}

\* C1: for title_weight > 0 and abstract_weight > 0 given to
\* find_similar_documents or find_similar_documents_by_embeddings, the weights
\* written into the score expression are title_weight/(title_weight +
\* abstract_weight) and abstract_weight/(title_weight + abstract_weight), they
\* sum to 1, and every returned similarity_score is computed with them.
C1_NormalizedWeightsUsed ==
    (/\ pc = "done"
     /\ call.op \in WeightedOps
     /\ call.title_weight > 0
     /\ call.abstract_weight > 0)
    => LET total == call.title_weight + call.abstract_weight
       IN /\ REq(ret.weights[1], Rat(call.title_weight, total))
          /\ REq(ret.weights[2], Rat(call.abstract_weight, total))
          /\ REq(RAdd(ret.weights[1], ret.weights[2]), ROne)
          /\ \A i \in DOMAIN ret.rows :
                REq(ret.rows[i].similarity_score,
                    RAdd(RMul(Rat(call.title_weight, total),
                              ret.rows[i].title_similarity),
                         RMul(Rat(call.abstract_weight, total),
                              ret.rows[i].abstract_similarity)))

\* C1 witness: a by-embeddings query with positive weights that do not
\* already sum to 1.0 returned a row whose two similarities differ
C1_Witness ==
    /\ Returned
    /\ call.op = "find_similar_documents_by_embeddings"
    /\ call.title_weight = 3 /\ call.abstract_weight = 3
    /\ \E i \in DOMAIN ret.rows :
          ~REq(ret.rows[i].title_similarity, ret.rows[i].abstract_similarity)

\* C2: a similarity query whose weights are both 0, or one of which is
\* negative, fails, and fails before any statement is sent to the store: no
\* statement is executed and no result list is returned.
C2_InvalidWeightsRejected ==
    (/\ pc = "done"
     /\ call.op \in SimilarityOps \ {"get_similar_papers"}
     /\ \/ (call.title_weight = 0 /\ call.abstract_weight = 0)
        \/ call.title_weight < 0
        \/ call.abstract_weight < 0)
    => /\ ret.status \notin {"ok"}
       /\ ret.executed = 0

\* C3: every row returned by find_similar_documents,
\* find_similar_documents_by_embeddings and get_similar_papers has
\* similarity_score >= threshold.
C3_NoResultBelowThreshold ==
    (Returned /\ call.op \in SimilarityOps)
    => \A i \in DOMAIN ret.rows :
          RGe(ret.rows[i].similarity_score, call.threshold)

\* C3 witness: a query returned a row although another candidate with both
\* embeddings scored below the threshold (here: was left out)
C3_Witness ==
    /\ Returned
    /\ call.op = "find_similar_documents_by_embeddings"
    /\ Len(ret.rows) = 1
    /\ call.limit = 2
    /\ \A d \in Ids : /\ papers[d].title_embedding # NONE
                      /\ papers[d].abstract_embedding # NONE

\* the document a similarity query is told to leave out (0: none)
ExcludedId ==
    IF call.op = "find_similar_documents_by_embeddings"
    THEN call.exclude_document_id ELSE call.document_id

\* C4: the result of a similarity query never contains the excluded document
\* and never contains a document whose title_embedding or abstract_embedding
\* is absent.
C4_ExcludedAndUnembeddedAbsent ==
    (Returned /\ call.op \in SimilarityOps)
    => \A d \in RowIds :
          /\ d # ExcludedId
          /\ papers[d].title_embedding # NONE
          /\ papers[d].abstract_embedding # NONE

\* C4 witness: rows were returned while the excluded document itself has both
\* embeddings and would pass the threshold
C4_Witness ==
    /\ Returned
    /\ call.op = "get_similar_papers"
    /\ call.document_id \in Ids
    /\ ret.rows # <<>>
    /\ RGe(Rat(70, 100), call.threshold)

\* C4 witness for the embedding part: rows were returned over a corpus in
\* which some document lacks an embedding
C4_WitnessUnembedded ==
    /\ Returned
    /\ call.op = "find_similar_documents_by_embeddings"
    /\ ret.rows # <<>>
    /\ \E d \in Ids : papers[d].title_embedding = NONE

\* C5: find_similar_documents with a document_id that is not in the store, or
\* whose document lacks title_embedding or abstract_embedding, returns an
\* empty list and raises nothing.
C5_UnusableReferenceGivesEmpty ==
    (/\ pc = "done"
     /\ call.op = "find_similar_documents"
     /\ \/ call.document_id \notin DOMAIN papers
        \/ papers[call.document_id].title_embedding = NONE
        \/ papers[call.document_id].abstract_embedding = NONE)
    => /\ ret.status = "ok"
       /\ ret.rows = <<>>

\* C5 witness: the reference exists, has its title embedding and lacks the
\* abstract embedding, and another document has both
C5_Witness ==
    /\ pc = "done"
    /\ call.op = "find_similar_documents"
    /\ call.document_id \in DOMAIN papers
    /\ papers[call.document_id].title_embedding # NONE
    /\ papers[call.document_id].abstract_embedding = NONE
    /\ \E d \in Ids : /\ papers[d].title_embedding # NONE
                      /\ papers[d].abstract_embedding # NONE
    /\ ret.status = "ok"

\* C26: in the similarity query builders the i-th bound parameter has the
\* role of the i-th placeholder of the statement, for every combination of
\* optional arguments; a statement whose parameters are aligned binds, so no
\* executed similarity statement is refused by the store.
C26_ParametersAligned ==
    (/\ pc = "done"
     /\ call.op \in {"find_similar_documents", "find_similar_documents_by_embeddings"})
    => ret.status # "raised"

\* C6: every returned similarity_score is title_weight * title_similarity +
\* abstract_weight * abstract_similarity with the normalised weights, so a
\* candidate whose embeddings equal the reference's scores 1.0: with weights
\* (0.75, 0.25) find_similar_documents keeps it at threshold 0.99, and drops it
\* at threshold 1.01.
C6_IdenticalCandidateScoresOne ==
    (/\ pc = "done"
     /\ call.op = "find_similar_documents"
     /\ call.document_id \in DOMAIN papers
     /\ call.folder_name = NULL
     /\ call.title_weight = 3 /\ call.abstract_weight = 1
     /\ papers[call.document_id].title_embedding # NONE
     /\ papers[call.document_id].abstract_embedding # NONE
     /\ \A d \in Ids :
           /\ papers[d].title_embedding = papers[call.document_id].title_embedding
           /\ papers[d].abstract_embedding = papers[call.document_id].abstract_embedding)
    => /\ ret.status = "ok"
       /\ call.threshold = Rat(99, 100) =>
             /\ ret.rows # <<>>
             /\ \A i \in DOMAIN ret.rows :
                   /\ REq(ret.rows[i].similarity_score, ROne)
                   /\ REq(ret.rows[i].similarity_score,
                          RAdd(RMul(Rat(3, 4), ret.rows[i].title_similarity),
                               RMul(Rat(1, 4), ret.rows[i].abstract_similarity)))
       /\ call.threshold = Rat(101, 100) => ret.rows = <<>>


\* the outcomes of the query in `call` on the same corpus with threshold t
SameQueryAt(t) ==
    CASE call.op = "find_similar_documents" ->
            FindSimilarDocuments(papers, call.document_id, call.limit, t, call.title_weight, call.abstract_weight, call.folder_name)
      [] call.op = "get_similar_documents" ->
            GetSimilarDocuments(papers, call.document_id, call.limit, t, call.title_weight, call.abstract_weight, call.folder_name)
      [] call.op = "find_similar_documents_by_embeddings" ->
            FindSimilarDocumentsByEmbeddings(papers, call.title_embedding, call.abstract_embedding, call.limit, t, call.title_weight, call.abstract_weight, call.folder_name, call.exclude_document_id)
      [] call.op = "get_similar_papers" ->
            GetSimilarPapers(papers, call.document_id, call.limit, t)

\* C13: on the same corpus, with the same reference, weights, limit and folder
\* scope, a query at threshold t1 returns at least as many results as the
\* same query at any threshold t2 >= t1.  At t2 = t1 the two queries are one
\* query, so the thresholds compared are the strictly higher ones.
C13_LowerThresholdNeverFewer ==
    (pc = "done" /\ call.op \in SimilarityOps \cup {"get_similar_documents"})
    => \A t2 \in Thresholds :
          RGt(t2, call.threshold)
          => \A stricter \in SameQueryAt(t2) : Len(stricter.rows) <= Len(ret.rows)

\* C13 witness: a query at threshold 0.70 returned strictly more rows than the
\* same query returns at 0.99
C13_Witness ==
    /\ Returned
    /\ call.op \in {"find_similar_documents_by_embeddings", "get_similar_papers"}
    /\ call.threshold = Rat(70, 100)
    /\ \E stricter \in SameQueryAt(Rat(99, 100)) :
          /\ stricter.status = "ok"
          /\ Len(stricter.rows) < Len(ret.rows)

\* the outcomes of the weighted query in `call` on the same corpus when the
\* limit is the size of the corpus: all its qualifying candidates
AllQualifying ==
    CASE call.op = "find_similar_documents" ->
            FindSimilarDocuments(papers, call.document_id, MaxDocs, call.threshold, call.title_weight, call.abstract_weight, call.folder_name)
      [] call.op = "get_similar_documents" ->
            GetSimilarDocuments(papers, call.document_id, MaxDocs, call.threshold, call.title_weight, call.abstract_weight, call.folder_name)
      [] call.op = "find_similar_documents_by_embeddings" ->
            FindSimilarDocumentsByEmbeddings(papers, call.title_embedding, call.abstract_embedding, MaxDocs, call.threshold, call.title_weight, call.abstract_weight, call.folder_name, call.exclude_document_id)

\* row r1 comes before row r2: higher score, or equal score and lower id
Precedes(r1, r2) ==
    \/ RGt(r1.similarity_score, r2.similarity_score)
    \/ REq(r1.similarity_score, r2.similarity_score) /\ r1.id < r2.id

\* C15: the result of a similarity query is the prefix of length at most
\* `limit` of the qualifying candidates sorted by score descending, ties
\* broken by document id ascending (so the list is the same on every run).
C15_ScoreThenIdOrder ==
    (Returned /\ call.op \in WeightedOps \cup {"get_similar_documents"})
    => /\ \A i, j \in DOMAIN ret.rows : i < j => Precedes(ret.rows[i], ret.rows[j])
       /\ \A full \in AllQualifying :
             full.status = "ok" =>
                /\ Len(ret.rows) = IF Len(full.rows) <= call.limit THEN Len(full.rows) ELSE call.limit
                /\ \A k \in DOMAIN full.rows :
                      full.rows[k].id \notin RowIds
                      => \A i \in DOMAIN ret.rows : Precedes(ret.rows[i], full.rows[k])

-----------------------------------------------------------------------------
(* Properties of the keyword search (SpecKeywords) *)

\* query keyword i of the call matches some keyword of document d under the
\* configured exact/case rules
QueryKeywordMatches(i, d) ==
    \E j \in DOMAIN papers[d].keywords :
        PyKeywordMatch(call.keywords[i], papers[d].keywords[j], call.exact_match, call.case_sensitive)

KwReturned == pc = "done" /\ call.op = "search_by_keywords" /\ ret.status = "ok"

\* C7: with search_mode = all, for every document returned by
\* search_by_keywords, match_score = 1.0 if and only if every query keyword
\* matches at least one keyword of the document under the exact/case rules.
C7_AllModeScoreOneIffAllMatch ==
    (KwReturned /\ call.search_mode = "all")
    => \A r \in DOMAIN ret.rows :
          REq(ret.rows[r].match_score, ROne)
          <=> \A i \in DOMAIN call.keywords : QueryKeywordMatches(i, ret.rows[r].id)

\* C8: in each of the four exact/fuzzy x case combinations a document is
\* returned by search_by_keywords only if, with search_mode = any, some query
\* keyword matches one of its keywords and, with search_mode = all, every
\* query keyword does; a document without keywords is never returned.
C8_SelectedOnlyIfMatching ==
    KwReturned
    => \A r \in DOMAIN ret.rows :
          LET d == ret.rows[r].id
          IN /\ papers[d].keywords # NullArray
             /\ papers[d].keywords # <<>>
             /\ IF call.search_mode = "all"
                THEN \A i \in DOMAIN call.keywords : QueryKeywordMatches(i, d)
                ELSE \E i \in DOMAIN call.keywords : QueryKeywordMatches(i, d)

\* C27: the selection predicate and the scorer of search_by_keywords agree:
\* every returned document has a non-empty matched_keywords list and a
\* match_score above 0, whatever characters the query keywords contain and
\* in every exact/case combination.
C27_SelectedRowsAreScored ==
    KwReturned
    => \A r \in DOMAIN ret.rows :
          /\ ret.rows[r].matched_keywords # <<>>
          /\ RGt(ret.rows[r].match_score, Rat(0, 1))

\* the distinct query keywords of the call that match a keyword of document d
MatchingQueryKeywords(d) ==
    {call.keywords[i] : i \in {k \in DOMAIN call.keywords : QueryKeywordMatches(k, d)}}

\* C16: for every keyword query and every returned document, match_score is
\* the number of distinct query keywords that match at least one document
\* keyword divided by the number of query keywords, and lies in [0, 1].
C16_MatchScoreCountsQueryKeywords ==
    KwReturned
    => \A r \in DOMAIN ret.rows :
          /\ REq(ret.rows[r].match_score,
                 Rat(Cardinality(MatchingQueryKeywords(ret.rows[r].id)), Len(call.keywords)))
          /\ RGe(ret.rows[r].match_score, Rat(0, 1))
          /\ RGe(ROne, ret.rows[r].match_score)

\* every document the query of the call selects, scored, sorted by match_score
\* descending and most recent first among equal scores
AllSelectedSorted ==
    SearchByKeywords(papers, call.keywords, call.search_mode, call.exact_match, call.case_sensitive, call.folder_name, MaxKwDocs).rows

\* C17: the result of search_by_keywords is the first `limit` entries of all
\* selected documents sorted by match_score descending, most recent first
\* among equal scores; no selected document left out has a higher match_score
\* than a returned one.
C17_OrderThenTruncate ==
    KwReturned
    => /\ ret.rows = Prefix(AllSelectedSorted, call.limit)
       /\ \A k \in DOMAIN AllSelectedSorted :
             (\A r \in DOMAIN ret.rows : ret.rows[r].id # AllSelectedSorted[k].id)
             => \A r \in DOMAIN ret.rows :
                   RGe(ret.rows[r].match_score, AllSelectedSorted[k].match_score)

-----------------------------------------------------------------------------
(* Properties of the text search (SpecText) *)

\* the query occurs, case-insensitively, in the title, in the abstract or in
\* an entry of the authors of document d
QueryOccursIn(d) ==
    LET q == Lower(call.query)
    IN \/ Contains(Lower(papers[d].title), q)
       \/ papers[d].abstract # NullText /\ Contains(Lower(papers[d].abstract), q)
       \/ \E j \in DOMAIN papers[d].authors : Contains(Lower(papers[d].authors[j]), q)

\* C18: search_documents selects a document if and only if the query occurs
\* case-insensitively as a substring of its title, of its abstract or of at
\* least one entry of its authors, subject to folder scope, equality filters
\* and limit (most recent first).
C18_TextSearchSelectsSubstringMatches ==
    (pc = "done" /\ call.op = "search_documents")
    => LET eligible == {d \in DOMAIN papers :
                           /\ QueryOccursIn(d)
                           /\ call.folder_name # NULL => papers[d].folder_name = call.folder_name
                           /\ call.filters # NULL => papers[d].status = call.filters}
           expected == Prefix(CreatedDesc(eligible), call.k)
       IN /\ ret.status = "ok"
          /\ [i \in DOMAIN ret.rows |-> ret.rows[i].id] = expected

\* where the query hits document d when it hits in one place only:
\* 3 title, 2 abstract, 1 an author entry, 0 otherwise
HitKind(d) ==
    LET q == Lower(call.query)
        title == Contains(Lower(papers[d].title), q)
        abstract == papers[d].abstract # NullText /\ Contains(Lower(papers[d].abstract), q)
        author == \E j \in DOMAIN papers[d].authors : Contains(Lower(papers[d].authors[j]), q)
    IN IF title /\ ~abstract /\ ~author THEN 3
       ELSE IF abstract /\ ~title /\ ~author THEN 2
       ELSE IF author /\ ~title /\ ~abstract THEN 1
       ELSE 0

\* C25: in the result of search_documents a title-only hit comes before an
\* abstract-only hit, which comes before an author-only hit, and hits of the
\* same kind come most recent first.
C25_TextSearchRanksByHitKind ==
    (pc = "done" /\ call.op = "search_documents")
    => \A i, j \in DOMAIN ret.rows :
          (i < j /\ HitKind(ret.rows[i].id) > 0 /\ HitKind(ret.rows[j].id) > 0)
          => \/ HitKind(ret.rows[i].id) > HitKind(ret.rows[j].id)
             \/ /\ HitKind(ret.rows[i].id) = HitKind(ret.rows[j].id)
                /\ ret.rows[i].id > ret.rows[j].id

-----------------------------------------------------------------------------
(* Properties of the combined search (SpecCombined) *)

\* C9: combined search invoked with text_query absent and keywords absent
\* fails and returns no rows, at the API entry point and at
\* Database.search_combined alike.
C9_EmptyCombinedQueryRejected ==
    (/\ pc = "done"
     /\ call.op \in {"search_combined", "api_search_combined"}
     /\ call.text_query = <<>>
     /\ call.keywords = <<>>)
    => /\ ret.status # "ok"
       /\ ret.rows = <<>>

CombReturned ==
    pc = "done" /\ call.op \in {"search_combined", "api_search_combined"} /\ ret.status = "ok"

\* the text predicate: text_query is given and occurs, case-insensitively, in
\* the title or the abstract of document d
TextPredicate(d) ==
    /\ call.text_query # <<>>
    /\ \/ Contains(Lower(papers[d].title), Lower(call.text_query))
       \/ papers[d].abstract # NullText /\ Contains(Lower(papers[d].abstract), Lower(call.text_query))

\* query keyword i matches a keyword of document d, case-insensitively,
\* exactly or as a substring
CombKeywordMatches(i, d) ==
    /\ papers[d].keywords # NullArray
    /\ \E j \in DOMAIN papers[d].keywords :
          PyKeywordMatch(call.keywords[i], papers[d].keywords[j], call.exact_keyword_match, FALSE)

\* the keyword predicate: keywords are given and, by keyword_mode, any or
\* all of them match
KeywordPredicate(d) ==
    /\ call.keywords # <<>>
    /\ IF call.keyword_mode = "all"
       THEN \A i \in DOMAIN call.keywords : CombKeywordMatches(i, d)
       ELSE \E i \in DOMAIN call.keywords : CombKeywordMatches(i, d)

\* the folder scope and the equality filters of the call
InScope(d) ==
    /\ call.folder_name # NULL => papers[d].folder_name = call.folder_name
    /\ call.filters # NULL => papers[d].status = call.filters

\* C19: every document returned by the combined search satisfies the folder
\* scope and all filters and satisfies the text predicate or the keyword
\* predicate, and every document that does is eligible: the result is the
\* most recent `limit` of them.
C19_CombinedIsOrOfPredicates ==
    CombReturned
    => LET eligible == {d \in DOMAIN papers : InScope(d) /\ (TextPredicate(d) \/ KeywordPredicate(d))}
       IN /\ \A r \in DOMAIN ret.rows : ret.rows[r].id \in eligible
          /\ [r \in DOMAIN ret.rows |-> ret.rows[r].id] = Prefix(CreatedDesc(eligible), call.limit)

\* the documents search_by_keywords returns, case-insensitively, for the
\* keywords, mode, exact flag, folder and limit of the combined call
KeywordMatcherIds ==
    LET rows == SearchByKeywords(papers, call.keywords, call.keyword_mode, call.exact_keyword_match, FALSE, call.folder_name, call.limit).rows
    IN {rows[r].id : r \in DOMAIN rows}

\* C20: with keywords given, text_query absent and no filters, search_combined
\* returns exactly the documents search_by_keywords returns for the same
\* keywords, mode and exact flag; with keyword_mode = all a document matching
\* only some of the keywords is not returned.
C20_CombinedKeywordsAsKeywordMatcher ==
    (CombReturned /\ call.text_query = <<>> /\ call.keywords # <<>> /\ call.filters = NULL)
    => /\ {ret.rows[r].id : r \in DOMAIN ret.rows} = KeywordMatcherIds
       /\ call.keyword_mode = "all"
          => \A r \in DOMAIN ret.rows :
                \A i \in DOMAIN call.keywords : CombKeywordMatches(i, ret.rows[r].id)

-----------------------------------------------------------------------------
(* Properties of folder scoping (SpecFolder) *)

-----------------------------------------------------------------------------
(* Properties of ingestion (SpecIngest) *)

\* the url values the run has stored
StoredUrls == {papers[i].url : i \in DOMAIN papers}
AllProcessed == \A p \in Range(ret.attempted) : ret.outcome[p] = "ok"

\* C10: when a run has processed its whole new-set and the known paths are
\* updated with the urls that run stored, the new-set computed again from
\* the same scan and base directory is empty.
C10_DedupIdempotent ==
    (pc = "done" /\ call.op = "main" /\ AllProcessed)
    => NewRelativePaths(GetAllPdfPaths(call.found, call.data_root), call.data_root, ret.known \cup StoredUrls) = {}

C10_Witness ==
    /\ pc = "done"
    /\ call.op = "main"
    /\ AllProcessed
    /\ Cardinality(ret.new_relative_paths) = MaxFiles
    /\ StoredUrls = ret.new_relative_paths

\* the paths the scan of this run found
Scanned == GetAllPdfPaths(call.found, call.data_root)

\* C21: a scanned file under the base directory whose path is already
\* stored, in relative form or as the absolute path of the same file, is
\* never in the new-set.
C21_StoredPathNeverNew ==
    (pc = "done" /\ call.op = "main")
    => \A p \in Scanned :
          (/\ IsUnder(p, call.data_root)
           /\ \/ RelativeTo(p, call.data_root) \in ret.known
              \/ IsAbsolute(p) /\ p \in ret.known)
          => RelativeTo(p, call.data_root) \notin ret.new_relative_paths

\* the files of this run that the loop counted in failed_count
FailedPaths == {p \in Range(ret.attempted) : ret.outcome[p] # "ok"}

\* C29: at the end of a run the number of documents inserted during the run
\* is processed_count, no file counted in failed_count has left a document
\* in the store, and every such file is in the new-set of the next run.
C29_CountersMatchStore ==
    (pc = "done" /\ call.op = "main")
    => /\ Len(papers) = ret.processed_count
       /\ \A p \in FailedPaths :
             /\ ProcessPdfUrl(p, call.data_root) \notin StoredUrls
             /\ ProcessPdfUrl(p, call.data_root) \in NewRelativePaths(Scanned, call.data_root, ret.known \cup StoredUrls)

-----------------------------------------------------------------------------
(* Properties of the path normalisation (SpecPaths) *)

\* the path convert_to_relative_paths puts in its result for p
ConvertedPath(p) == CHOOSE r \in ConvertToRelativePaths({p}, call.data_root) : TRUE

-----------------------------------------------------------------------------
(* Properties of the batch loop (SpecIngestLoop) *)

\* the absolute paths main has to process in this run
NewAbsolutePaths ==
    {ResolveAbsolute(r, call.data_root) : r \in NewRelativePaths(GetAllPdfPaths(call.found, call.data_root), call.data_root, GetAlreadyIngestedPaths(documents))}

BatchComplete ==
    /\ Injective(ret.attempted)
    /\ Range(ret.attempted) = NewAbsolutePaths
    /\ ret.calls.close = 1
    /\ ret.processed_count + ret.failed_count = Cardinality(NewAbsolutePaths)
    /\ ret.failed_count = 0 =>
          /\ ret.calls.process_pdf = Cardinality(NewAbsolutePaths)
          /\ ret.calls.insert_document = Cardinality(NewAbsolutePaths)
          /\ ret.calls.update_paper_status = Cardinality(NewAbsolutePaths)

\* C11: a failure while one file is processed never aborts the batch: the run
\* always ends, and when it has ended every new path was attempted exactly
\* once, the connection was closed once, processed_count + failed_count is the
\* number of new paths, and without failures process_pdf, insert_document and
\* update_paper_status were each called once per new path.
C11_FailureNeverAbortsBatch ==
    /\ [](pc = "done" => BatchComplete)
    /\ <>(pc = "done")

C11_Witness ==
    /\ pc = "done"
    /\ Len(ret.attempted) = MaxFiles
    /\ ret.failed_count >= 1
    /\ ret.processed_count >= 1
    /\ Len(papers) >= 1

\* the rows of papers this step has added
Created == {i \in DOMAIN papers' : i \notin DOMAIN papers}

\* C24: every record ingestion produces is created with status pending, and
\* the only later changes of a record's status are one move from pending to
\* processed or to error.
C24_StatusLifecycle ==
    [][/\ \A i \in Created : papers'[i].status = "pending"
       /\ \A i \in DOMAIN papers :
             /\ i \in DOMAIN papers'
             /\ papers'[i].status # papers[i].status
                => papers[i].status = "pending" /\ papers'[i].status \in {"processed", "error"}]_vars

-----------------------------------------------------------------------------
(* Properties of the weight normalisation (SpecWeights) *)

-----------------------------------------------------------------------------
(* Properties of the summary update (SpecUpdate) *)

\* the fields of a document other than the store's modification stamp
ContentFields == {"title", "status", "summary", "methodology", "distinction"}

\* C14: update_document_summary on an existing document sets exactly the
\* summary fields supplied with a non-null value, leaves every other field of
\* that document and every other document unchanged, and returns True; on a
\* document_id not in the store it returns False and changes nothing.
C14_UpdateSummaryFrame ==
    [][(pc = "idle" /\ pc' = "done" /\ call'.op = "update_document_summary")
       => IF call'.document_id \in DOMAIN papers
          THEN /\ ret'.value = TRUE
               /\ \A d \in DOMAIN papers, f \in ContentFields :
                     papers'[d][f] =
                        IF d = call'.document_id /\ f \in SummaryFields
                           /\ call'.summary_data[f] \notin {Unset, NullText}
                        THEN call'.summary_data[f]
                        ELSE papers[d][f]
          ELSE /\ ret'.value = FALSE
               /\ papers' = papers]_vars

-----------------------------------------------------------------------------
(* Properties of volume and issue (SpecMetadata) *)

\* C28: when a request that sets only volume and a concurrent request that
\* sets only issue have both finished, in whatever order their steps ran,
\* the stored volume_issue holds the new volume and the new issue.
C28_NoLostMetadataUpdate ==
    (pc.volume_request = "done" /\ pc.issue_request = "done")
    => papers[1].volume_issue = call.new_volume \o <<" ">> \o call.new_issue

\* C30: a document inserted with a volume and an issue, each possibly
\* absent, is read back by get_document with the same volume and the same
\* issue.
C30_VolumeIssueRoundTrip ==
    (/\ pc.reader = "done"
     /\ pc.volume_request = "idle"
     /\ pc.issue_request = "idle")
    => /\ ret.document.volume = call.volume
       /\ ret.document.issue = call.issue

====
